---------------------------- MODULE Spec2Model ----------------------------
(***************************************************************************)
(* A model of the gradient-bound routines of privacy.py                    *)
(* (compute_ReLU_bounds, compute_Tanh_bounds) and of the training loop     *)
(* train_WGAN of train_dpgan.py.                                           *)
(*                                                                         *)
(* Real numbers are exact rationals <<numerator, denominator>> in lowest   *)
(* terms with a positive denominator; floating-point rounding is not       *)
(* modelled.                                                               *)
(***************************************************************************)
EXTENDS Integers, Sequences, FiniteSets

VARIABLES
    model,        \* privacy.py: the network, the sequence model.modules() yields
    call,         \* privacy.py: per invocation, its arguments and its locals
    fs,           \* train_dpgan.py: the run directory run_fp
    args,         \* train_dpgan.py: args.n_g, args.n_d, args.lambda_gp, privacy_engine
    nets,         \* train_dpgan.py: netD / netG modes, netD's hooks
    run,          \* train_dpgan.py: the position and locals of the train_WGAN call
    steps         \* train_dpgan.py: optimizer steps and clipper applications so far

vars == <<model, call, fs, args, nets, run, steps>>
boundVars == <<model, call>>
trainVars == <<fs, args, nets, run, steps>>

---------------------------------------------------------------------------
(* Bounds of the model.                                                    *)

MaxModules == 2
MaxDim == 2
MaxNg == 2
MaxNd == 2
MaxCalls == 2

---------------------------------------------------------------------------
(* Exact rational arithmetic.                                              *)

Abs(n) == IF n < 0 THEN -n ELSE n

RECURSIVE GCD(_, _)
GCD(a, b) == IF b = 0 THEN a ELSE GCD(b, a % b)

Rat(n, d) ==
    LET g == GCD(Abs(n), Abs(d))
        s == IF d < 0 THEN -1 ELSE 1
    IN  <<(s * n) \div g, (s * d) \div g>>

Zero == Rat(0, 1)
One == Rat(1, 1)
Two == Rat(2, 1)

RMul(x, y) == Rat(x[1] * y[1], x[2] * y[2])

RAdd(x, y) ==
    LET g == GCD(x[2], y[2])
    IN  Rat(x[1] * (y[2] \div g) + y[1] * (x[2] \div g), (x[2] \div g) * y[2])

RLeq(x, y) ==
    LET g == GCD(x[2], y[2])
    IN  x[1] * (y[2] \div g) <= y[1] * (x[2] \div g)

RLt(x, y) == RLeq(x, y) /\ x # y

\* Python's max(a, b): b unless a is larger.
RMax(x, y) == IF RLeq(y, x) THEN x ELSE y

RInt(n) == Rat(n, 1)

---------------------------------------------------------------------------
(* Tensors: a vector is a sequence of rationals, a matrix a sequence of    *)
(* rows.                                                                   *)

Shape0(W) == Len(W)
Shape1(W) == Len(W[1])

RECURSIVE Repeat(_, _)
\* the sequence of n entries x
Repeat(x, n) == IF n = 0 THEN <<>> ELSE Append(Repeat(x, n - 1), x)

Filled(o, i, x) == Repeat(Repeat(x, i), o)

RECURSIVE Dot(_, _, _)
\* sum over k in 1..n of row[k] * v[k]
Dot(row, v, n) ==
    IF n = 0 THEN Zero ELSE RAdd(Dot(row, v, n - 1), RMul(row[n], v[n]))

RECURSIVE VecMax(_, _)
\* the largest entry among the first n (n >= 1)
VecMax(v, n) == IF n = 1 THEN v[1] ELSE RMax(VecMax(v, n - 1), v[n])

\* torch.ones(n) * input_bounds
OnesTimes(n, x) == Repeat(RMul(One, x), n)

\* torch.ones_like(layer.weight) * c_p : a new tensor of the weight's shape
UniformW(weight, c_p) ==
    Repeat(Repeat(RMul(One, c_p), Shape1(weight)), Shape0(weight))

\* W @ sample is defined when W's columns are as many as sample's entries
MatVecDefined(W, sample) == Shape1(W) = Len(sample)

RECURSIVE MatVecRows(_, _, _)
\* the first r entries of W @ sample
MatVecRows(W, sample, r) ==
    IF r = 0 THEN <<>>
    ELSE Append(MatVecRows(W, sample, r - 1), Dot(W[r], sample, Len(sample)))

MatVec(W, sample) == MatVecRows(W, sample, Shape0(W))

---------------------------------------------------------------------------
(* privacy.py: the network and the two bound routines.                     *)

\* a module of model.modules(): an nn.Linear with its weight, or anything else
\* (the container itself, an activation)
Linear(weight) == [kind |-> "Linear", weight |-> weight]
Other == [kind |-> "Other", weight |-> <<>>]

isLinear(layer) == layer.kind = "Linear"

NoValue == <<>>

\* compute_ReLU_bounds, its locals before the loop
ReLUInit(input_size, input_bounds) ==
    [sample |-> OnesTimes(input_size, input_bounds),
     B_sigma |-> Zero,
     sum_mk_mkp1 |-> 0,
     skip_first |-> TRUE]

\* a slip: min for max
UpdateBSigma_Min(B_sigma, sample) ==
    IF RLeq(B_sigma, VecMax(sample, Len(sample))) THEN B_sigma
    ELSE VecMax(sample, Len(sample))

\* a slip: the last layer's maximum replaces the running maximum
UpdateBSigma_Last(B_sigma, sample) == VecMax(sample, Len(sample))

\* B_sigma = max(B_sigma, sample.max().detach().item())
UpdateBSigma(B_sigma, sample) == RMax(B_sigma, VecMax(sample, Len(sample)))

\* a slip: the first layer is counted too
ReLUAccumulate_NoSkip(loc, W) ==
    [loc EXCEPT !.skip_first = FALSE, !.sum_mk_mkp1 = @ + Shape0(W) * Shape1(W)]

\* compute_ReLU_bounds: if skip_first: ... else: sum_mk_mkp1 += W.shape[0] * W.shape[1]
ReLUAccumulate(loc, W) ==
    IF loc.skip_first
    THEN [loc EXCEPT !.skip_first = FALSE]
    ELSE [loc EXCEPT !.sum_mk_mkp1 = @ + Shape0(W) * Shape1(W)]

\* compute_ReLU_bounds: the loop body for an nn.Linear whose product is defined
ReLUBody(loc, layer, c_p) ==
    LET W == UniformW(layer.weight, c_p)
        sample == MatVec(W, loc.sample)
        B_sigma == UpdateBSigma(loc.B_sigma, sample)
    IN  ReLUAccumulate([loc EXCEPT !.sample = sample, !.B_sigma = B_sigma], W)

\* c_g = 2 * c_p * B_sigma * (B_sigma_p ** 2) * sum_mk_mkp1
Formula_c_g(c_p, B_sigma, B_sigma_p, sum_mk_mkp1) ==
    RMul(RMul(RMul(RMul(Two, c_p), B_sigma), RMul(B_sigma_p, B_sigma_p)),
         RInt(sum_mk_mkp1))

\* a slip: the ReLU routine's initial value
TanhBSigma_Zero == Zero

\* compute_Tanh_bounds: B_sigma = 1.0
TanhBSigma == One

\* compute_Tanh_bounds, its locals before the loop (it keeps no sample)
TanhInit ==
    [sample |-> <<>>,
     B_sigma |-> TanhBSigma,
     sum_mk_mkp1 |-> 0,
     skip_first |-> TRUE]

\* a slip: the first layer is counted too
TanhBody_NoSkip(loc, layer) ==
    [loc EXCEPT !.skip_first = FALSE,
                !.sum_mk_mkp1 = @ + Shape0(layer.weight) * Shape1(layer.weight)]

\* compute_Tanh_bounds: the loop body for an nn.Linear
TanhBody(loc, layer) ==
    IF loc.skip_first
    THEN [loc EXCEPT !.skip_first = FALSE]
    ELSE [loc EXCEPT !.sum_mk_mkp1 =
                        @ + Shape0(layer.weight) * Shape1(layer.weight)]

\* a slip: the layer's own weight is overwritten with c_p
ModelAfterLayer_InPlace(m, k, W) == [m EXCEPT ![k].weight = W]

\* what the loop body leaves in the network: W is a new tensor, layer.weight
\* is read for its shape only
ModelAfterLayer(m, k, W) == m

\* before the first statement no local is bound
NoLocals ==
    [sample |-> <<>>, B_sigma |-> NoValue, sum_mk_mkp1 |-> 0, skip_first |-> TRUE]

\* a fresh invocation; `after` names the calls the caller makes before this one
NewCall(variant, c_p, input_size, input_bounds, B_sigma_p) ==
    [variant |-> variant, c_p |-> c_p, input_size |-> input_size,
     input_bounds |-> input_bounds, B_sigma_p |-> B_sigma_p,
     pc |-> "start", idx |-> 0, loc |-> NoLocals, c_g |-> NoValue,
     after |-> {}]

Calls == {1, 2}

\* the statements before the loop
Enter(c) ==
    /\ call[c].pc = "start"
    /\ \A d \in call[c].after : call[d].pc \in {"done", "raised"}
    /\ call' = [call EXCEPT ![c].pc = "loop", ![c].idx = 1,
                            ![c].loc = IF call[c].variant = "ReLU"
                                       THEN ReLUInit(call[c].input_size,
                                                     call[c].input_bounds)
                                       ELSE TanhInit]
    /\ UNCHANGED <<model, trainVars>>

\* one pass of `for layer in model.modules()` over a module that is no nn.Linear
LoopOther(c) ==
    /\ call[c].pc = "loop"
    /\ call[c].idx <= Len(model)
    /\ ~isLinear(model[call[c].idx])
    /\ call' = [call EXCEPT ![c].idx = @ + 1]
    /\ UNCHANGED <<model, trainVars>>

\* one pass over an nn.Linear
LoopLinear(c) ==
    /\ call[c].pc = "loop"
    /\ call[c].idx <= Len(model)
    /\ isLinear(model[call[c].idx])
    /\ LET layer == model[call[c].idx]
           W == UniformW(layer.weight, call[c].c_p)
       IN  IF call[c].variant = "ReLU"
           THEN /\ MatVecDefined(W, call[c].loc.sample)
                /\ call' = [call EXCEPT ![c].idx = @ + 1,
                                        ![c].loc = ReLUBody(@, layer, call[c].c_p)]
                /\ model' = ModelAfterLayer(model, call[c].idx, W)
           ELSE /\ call' = [call EXCEPT ![c].idx = @ + 1,
                                        ![c].loc = TanhBody(@, layer)]
                /\ model' = model
    /\ UNCHANGED trainVars

\* W @ sample with W.shape[1] # len(sample): torch raises RuntimeError
LoopRaise(c) ==
    /\ call[c].pc = "loop"
    /\ call[c].idx <= Len(model)
    /\ isLinear(model[call[c].idx])
    /\ call[c].variant = "ReLU"
    /\ ~MatVecDefined(UniformW(model[call[c].idx].weight, call[c].c_p),
                      call[c].loc.sample)
    /\ call' = [call EXCEPT ![c].pc = "raised"]
    /\ UNCHANGED <<model, trainVars>>

\* after the loop: c_g is computed and returned
Return(c) ==
    /\ call[c].pc = "loop"
    /\ call[c].idx > Len(model)
    /\ call' = [call EXCEPT ![c].pc = "done",
                            ![c].c_g = Formula_c_g(call[c].c_p, call[c].loc.B_sigma,
                                                   call[c].B_sigma_p,
                                                   call[c].loc.sum_mk_mkp1)]
    /\ UNCHANGED <<model, trainVars>>

---------------------------------------------------------------------------
(* The two routines as functions of their arguments: the same loop bodies, *)
(* folded over model.modules().                                            *)

RECURSIVE ReLULoop(_, _, _, _)
ReLULoop(m, k, loc, c_p) ==
    IF k > Len(m) THEN [raised |-> FALSE, loc |-> loc]
    ELSE IF ~isLinear(m[k]) THEN ReLULoop(m, k + 1, loc, c_p)
    ELSE IF ~MatVecDefined(UniformW(m[k].weight, c_p), loc.sample)
         THEN [raised |-> TRUE, loc |-> loc]
         ELSE ReLULoop(m, k + 1, ReLUBody(loc, m[k], c_p), c_p)

RECURSIVE TanhLoop(_, _, _)
TanhLoop(m, k, loc) ==
    IF k > Len(m) THEN loc
    ELSE IF ~isLinear(m[k]) THEN TanhLoop(m, k + 1, loc)
    ELSE TanhLoop(m, k + 1, TanhBody(loc, m[k]))

\* NoValue when the call raises
compute_ReLU_bounds(m, c_p, input_size, input_bounds, B_sigma_p) ==
    LET r == ReLULoop(m, 1, ReLUInit(input_size, input_bounds), c_p)
    IN  IF r.raised THEN NoValue
        ELSE Formula_c_g(c_p, r.loc.B_sigma, B_sigma_p, r.loc.sum_mk_mkp1)

compute_Tanh_bounds(m, c_p, input_size, input_bounds, B_sigma_p) ==
    LET loc == TanhLoop(m, 1, TanhInit)
    IN  Formula_c_g(c_p, loc.B_sigma, B_sigma_p, loc.sum_mk_mkp1)

---------------------------------------------------------------------------
(* train_dpgan.py: train_WGAN.                                             *)

print_mod == 10
save_mod == 2000

\* args.lambda_gp as the runs of the script set it: 0.0 or 10.0
LambdaGpValues == {0, 10}

Running == {"outer", "inner", "d_opt", "d_clip", "g_opt", "save"}
Ended == {"returned", "raised", "killed"}

\* a line is printed to loss.txt in the iterations with i % print_mod == 0
Logged(i) == IF i % print_mod = 0 THEN 1 ELSE 0

\* a slip: only a finished run (its last line written) counts as existing
AlreadyRan_Finished == fs.loss_exists /\ fs.final_line

\* os.path.exists(f"{run_fp}/loss.txt")
AlreadyRan == fs.loss_exists

\* if os.path.exists(f"{run_fp}/loss.txt"): print(...); return
Skip ==
    /\ run.pc = "call"
    /\ AlreadyRan
    /\ run' = [run EXCEPT !.pc = "returned"]
    /\ UNCHANGED <<fs, args, nets, steps, boundVars>>

\* start_time, print_mod, save_mod, clipper; open(f"{run_fp}/loss.txt", "a")
Open ==
    /\ run.pc = "call"
    /\ ~AlreadyRan
    /\ fs' = [fs EXCEPT !.loss_exists = TRUE]
    /\ run' = [run EXCEPT !.pc = "outer", !.i = 0, !.j = 0, !.opened = TRUE]
    /\ UNCHANGED <<args, nets, steps, boundVars>>

\* for i in range(args.n_g): enable_hooks (with a privacy engine), netD.train(),
\* netG.eval(), and the inner loop starts
IterBegin ==
    /\ run.pc = "outer"
    /\ run.i < args.n_g
    /\ nets' = [nets EXCEPT !.hooks = IF args.private THEN TRUE ELSE @,
                            !.netD = "train", !.netG = "eval"]
    /\ run' = [run EXCEPT !.pc = "inner", !.j = 0]
    /\ UNCHANGED <<fs, args, steps, boundVars>>

\* for j in range(args.n_d): the batches, the discriminator's outputs and, with
\* args.lambda_gp == 0.0, the standard WGAN loss
DLoss ==
    /\ run.pc = "inner"
    /\ run.j < args.n_d
    /\ args.lambda_gp = 0
    /\ run' = [run EXCEPT !.pc = "d_opt"]
    /\ UNCHANGED <<fs, args, nets, steps, boundVars>>

\* with args.lambda_gp != 0.0: grad_x_hat = ...view(grad_x_hat.size(0), -1) reads
\* the local grad_x_hat before it is assigned: UnboundLocalError leaves the
\* function (the with statement closes loss.txt)
DLossRaise ==
    /\ run.pc = "inner"
    /\ run.j < args.n_d
    /\ args.lambda_gp # 0
    /\ run' = [run EXCEPT !.pc = "raised"]
    /\ UNCHANGED <<fs, args, nets, steps, boundVars>>

\* optimizerD.zero_grad(); d_loss.backward(); optimizerD.step()
DStep ==
    /\ run.pc = "d_opt"
    /\ steps' = [steps EXCEPT !.d = @ + 1]
    /\ run' = [run EXCEPT !.pc = "d_clip"]
    /\ UNCHANGED <<fs, args, nets, boundVars>>

\* if args.lambda_gp == 0.0: netD.apply(clipper); the d_loss line; next j
DClip ==
    /\ run.pc = "d_clip"
    /\ steps' = [steps EXCEPT !.clip = IF args.lambda_gp = 0 THEN @ + 1 ELSE @]
    /\ fs' = [fs EXCEPT !.loss_lines = @ + Logged(run.i)]
    /\ run' = [run EXCEPT !.pc = "inner", !.j = @ + 1]
    /\ UNCHANGED <<args, nets, boundVars>>

\* the inner loop is over: disable_hooks (with a privacy engine), netD.eval(),
\* netG.train()
IterSwitch ==
    /\ run.pc = "inner"
    /\ run.j >= args.n_d
    /\ nets' = [nets EXCEPT !.hooks = IF args.private THEN FALSE ELSE @,
                            !.netD = "eval", !.netG = "train"]
    /\ run' = [run EXCEPT !.pc = "g_opt"]
    /\ UNCHANGED <<fs, args, steps, boundVars>>

\* g_loss; optimizerG.zero_grad(); g_loss.backward(); optimizerG.step(); the
\* g_loss line
GStep ==
    /\ run.pc = "g_opt"
    /\ steps' = [steps EXCEPT !.g = @ + 1]
    /\ fs' = [fs EXCEPT !.loss_lines = @ + Logged(run.i)]
    /\ run' = [run EXCEPT !.pc = "save"]
    /\ UNCHANGED <<args, nets, boundVars>>

\* if (i+1) % save_mod == 0: the checkpoints netG_{i+1}.pt, netD_{i+1}.pt (and,
\* with a privacy engine, a training-time line and the accountant)
Save ==
    /\ run.pc = "save"
    /\ (run.i + 1) % save_mod = 0
    /\ fs' = [fs EXCEPT !.checkpoints = @ \cup {run.i + 1},
                        !.loss_lines = IF args.private THEN @ + 1 ELSE @]
    /\ run' = [run EXCEPT !.pc = "outer", !.i = @ + 1]
    /\ UNCHANGED <<args, nets, steps, boundVars>>

NoSave ==
    /\ run.pc = "save"
    /\ (run.i + 1) % save_mod # 0
    /\ run' = [run EXCEPT !.pc = "outer", !.i = @ + 1]
    /\ UNCHANGED <<fs, args, nets, steps, boundVars>>

\* after the outer loop: print(f"Training time: ...", file=f), and the file closes
Final ==
    /\ run.pc = "outer"
    /\ run.i >= args.n_g
    /\ fs' = [fs EXCEPT !.loss_lines = @ + 1, !.final_line = TRUE]
    /\ run' = [run EXCEPT !.pc = "returned"]
    /\ UNCHANGED <<args, nets, steps, boundVars>>

\* the process is stopped from outside while the loop runs
Interrupt ==
    /\ run.pc \in Running
    /\ run' = [run EXCEPT !.pc = "killed"]
    /\ UNCHANGED <<fs, args, nets, steps, boundVars>>

\* train_WGAN is called again with the same run_fp and the same objects
CallAgain ==
    /\ run.pc \in Ended
    /\ run.callNo < MaxCalls
    /\ run' = [run EXCEPT !.pc = "call", !.callNo = @ + 1, !.opened = FALSE,
                          !.i = 0, !.j = 0]
    /\ UNCHANGED <<fs, args, nets, steps, boundVars>>

---------------------------------------------------------------------------
(* Initial states and specifications.                                      *)

\* a stored weight entry (the routines never read its value)
InitWeight == Rat(1, 2)

ModuleChoices ==
    {Other} \cup {Linear(Filled(o, i, InitWeight)) : o \in 1..MaxDim, i \in 1..MaxDim}

\* model.modules() yields the model itself first: at least one module
Networks == UNION {[1..n -> ModuleChoices] : n \in 1..MaxModules}

\* the example network 4 -> 3, activation, 3 -> 2 as model.modules() yields it:
\* the container first, then its children
ExampleNet ==
    <<Other, Linear(Filled(3, 4, InitWeight)), Other,
      Linear(Filled(2, 3, InitWeight))>>

\* a network with its input_size; the example network takes 4 entries
NetInputs == (Networks \X (1..MaxDim)) \cup {<<ExampleNet, 4>>}

RECURSIVE ShapesUpTo(_, _)
\* the shapes of the linear layers among the first k modules of m
ShapesUpTo(m, k) ==
    IF k = 0 THEN <<>>
    ELSE IF isLinear(m[k])
         THEN Append(ShapesUpTo(m, k - 1),
                     <<Shape0(m[k].weight), Shape1(m[k].weight)>>)
         ELSE ShapesUpTo(m, k - 1)

\* the shapes <<output_dim, input_dim>> of the linear layers of m, in order
LinearShapes(m) == ShapesUpTo(m, Len(m))

\* the linear layers chain: the first takes input_size entries, each next one
\* as many as the previous one gives
ShapesChain(shapes, input_size) ==
    /\ Len(shapes) >= 1
    /\ shapes[1][2] = input_size
    /\ \A k \in 2..Len(shapes) : shapes[k][2] = shapes[k - 1][1]

\* the networks a forward pass runs through
ChainedNetInputs ==
    {ni \in NetInputs : ShapesChain(LinearShapes(ni[1]), ni[2])}

CpValues == {Rat(-1, 1), Zero, Rat(1, 100), Rat(1, 50), One, Two}
InputBoundValues == {Rat(-1, 1), Zero, One, Two}
BSigmaPValues == {One, Two}

NoRun == [pc |-> "idle", i |-> 0, j |-> 0, callNo |-> 0, opened |-> FALSE]
NoFiles == [loss_exists |-> FALSE, loss_lines |-> 0, final_line |-> FALSE,
            checkpoints |-> {}]
NoArgs == [n_g |-> 0, n_d |-> 0, lambda_gp |-> 0, private |-> FALSE]
NoNets == [hooks |-> FALSE, netD |-> "train", netG |-> "train"]
NoSteps == [d |-> 0, g |-> 0, clip |-> 0]

TrainIdle ==
    /\ fs = NoFiles
    /\ args = NoArgs
    /\ nets = NoNets
    /\ run = NoRun
    /\ steps = NoSteps

\* as in the module's __main__: compute_ReLU_bounds, then compute_Tanh_bounds,
\* here on the same network and arguments
CallPair(c_p, input_size, input_bounds, B_sigma_p) ==
    [c \in Calls |->
        IF c = 1
        THEN NewCall("ReLU", c_p, input_size, input_bounds, B_sigma_p)
        ELSE [NewCall("Tanh", c_p, input_size, input_bounds, B_sigma_p)
                 EXCEPT !.after = {1}]]

\* any sequence of modules and any input_size, chained or not, with a negative
\* and a positive c_p
InitAnyNetwork ==
    \E ni \in NetInputs, c_p \in {Rat(-1, 1), Rat(1, 100)} :
        /\ model = ni[1]
        /\ call = CallPair(c_p, ni[2], One, One)

\* the chained networks with every scalar argument
InitAnyScalars ==
    \E ni \in ChainedNetInputs, c_p \in CpValues,
       input_bounds \in InputBoundValues, B_sigma_p \in BSigmaPValues :
        /\ model = ni[1]
        /\ call = CallPair(c_p, ni[2], input_bounds, B_sigma_p)

Init ==
    /\ InitAnyNetwork \/ InitAnyScalars
    /\ TrainIdle

Next ==
    \E c \in Calls :
        \/ Enter(c)
        \/ LoopOther(c)
        \/ LoopLinear(c)
        \/ LoopRaise(c)
        \/ Return(c)

Spec == Init /\ [][Next]_vars

\* the same network with every stored weight entry w
WithWeights(m, w) ==
    [k \in 1..Len(m) |->
        IF isLinear(m[k])
        THEN Linear(Filled(Shape0(m[k].weight), Shape1(m[k].weight), w))
        ELSE m[k]]

WeightValues == {InitWeight, Rat(-3, 1)}
Variants == {"ReLU", "Tanh"}

\* two independent callers on one network: each call has a routine and a c_p of
\* its own, and nothing orders the two
InitConcurrent ==
    /\ \E ni \in ChainedNetInputs \cup {<<ExampleNet, 3>>}, w \in WeightValues,
          v \in [Calls -> Variants], c_p \in [Calls -> {Rat(1, 100), Two}],
          input_bounds \in {One, Two} :
          /\ model = WithWeights(ni[1], w)
          /\ call = [c \in Calls |->
                        NewCall(v[c], c_p[c], ni[2], input_bounds, One)]
    /\ TrainIdle

SpecConcurrent == InitConcurrent /\ [][Next]_vars

\* args.n_g and args.n_d: the small runs, and one run long enough to reach a
\* checkpoint
RunLengths == ((1..MaxNg) \X (1..MaxNd)) \cup {<<save_mod, 1>>}

\* run_fp as a call may find it: empty, or with the loss.txt of an earlier run
\* that stopped part-way or finished
PriorFiles ==
    {NoFiles,
     [NoFiles EXCEPT !.loss_exists = TRUE, !.loss_lines = 1],
     [NoFiles EXCEPT !.loss_exists = TRUE, !.loss_lines = 3, !.final_line = TRUE]}

BoundsIdle ==
    /\ model = <<Other>>
    /\ call = [c \in Calls |-> [NewCall("Tanh", One, 1, One, One) EXCEPT !.pc = "idle"]]

\* the first call of train_WGAN; with a privacy engine netD is Opacus's wrapped
\* module, whose hooks may be on or off
InitTrain ==
    /\ \E len \in RunLengths, lambda_gp \in LambdaGpValues, private \in BOOLEAN,
          hooks \in BOOLEAN, files \in PriorFiles :
          /\ args = [n_g |-> len[1], n_d |-> len[2], lambda_gp |-> lambda_gp,
                     private |-> private]
          /\ nets = [hooks |-> private /\ hooks, netD |-> "train", netG |-> "train"]
          /\ fs = files
    /\ run = [pc |-> "call", i |-> 0, j |-> 0, callNo |-> 1, opened |-> FALSE]
    /\ steps = NoSteps
    /\ BoundsIdle

NextTrain ==
    \/ Skip
    \/ Open
    \/ IterBegin
    \/ DLoss
    \/ DLossRaise
    \/ DStep
    \/ DClip
    \/ IterSwitch
    \/ GStep
    \/ Save
    \/ NoSave
    \/ Final
    \/ Interrupt
    \/ CallAgain

SpecTrain == InitTrain /\ [][NextTrain]_vars

---------------------------------------------------------------------------
(* Reference definitions the properties are stated with.                   *)

RECURSIVE SumFrom(_, _)
\* sum of output_dim * input_dim over shapes[k..]
SumFrom(shapes, k) ==
    IF k > Len(shapes) THEN 0
    ELSE shapes[k][1] * shapes[k][2] + SumFrom(shapes, k + 1)

SumExceptFirst(shapes) == SumFrom(shapes, 2)

\* the modules a call has passed
Processed(c) == SubSeq(model, 1, call[c].idx - 1)

InLoopOrAfter(c) == call[c].pc \in {"loop", "done", "raised"}

RECURSIVE LayerValue(_, _, _, _)
\* the entry of the propagated vector after the k-th linear layer
LayerValue(shapes, k, c_p, input_bounds) ==
    IF k = 0 THEN input_bounds
    ELSE RMul(RMul(RInt(shapes[k][2]), c_p),
              LayerValue(shapes, k - 1, c_p, input_bounds))

RECURSIVE RunningMax(_, _, _, _)
\* the largest of 0 and the entries after each of the first k linear layers
RunningMax(shapes, k, c_p, input_bounds) ==
    IF k = 0 THEN Zero
    ELSE RMax(RunningMax(shapes, k - 1, c_p, input_bounds),
              LayerValue(shapes, k, c_p, input_bounds))

\* B_sigma of compute_ReLU_bounds for other arguments on the same network
BSigmaFor(c_p, input_size, input_bounds) ==
    ReLULoop(model, 1, ReLUInit(input_size, input_bounds), c_p).loc.B_sigma

BothDone == \A c \in Calls : call[c].pc = "done"

---------------------------------------------------------------------------
(* Properties of the bound routines, under Spec.                           *)

\* C1: for a network with exactly one linear layer, every call that returns,
\* of either routine and for any c_p, input_bounds and B_sigma_p, returns
\* c_g = 0 and has sum_mk_mkp1 = 0.
C1_OneLinearLayerGivesZero ==
    \A c \in Calls :
        (call[c].pc = "done" /\ Len(LinearShapes(model)) = 1)
            => /\ call[c].loc.sum_mk_mkp1 = 0
               /\ call[c].c_g = Zero

\* both routines returned on a one-layer network although c_p and the ReLU
\* routine's B_sigma are not zero
C1_Witness ==
    /\ BothDone
    /\ Len(LinearShapes(model)) = 1
    /\ call[1].c_p # Zero
    /\ call[1].loc.B_sigma # Zero
    /\ call[1].B_sigma_p = Two
    /\ call[1].c_g = Zero
    /\ call[2].c_g = Zero

C3_TanhBSigmaIsOne ==
    LET t == call[2]
    IN  /\ (t.variant = "Tanh" /\ InLoopOrAfter(2)) => t.loc.B_sigma = One
        /\ (t.variant = "Tanh" /\ t.pc = "done") =>
              /\ t.c_g = RMul(RMul(Two, t.c_p),
                              RMul(RMul(t.B_sigma_p, t.B_sigma_p),
                                   RInt(SumExceptFirst(LinearShapes(model)))))
              /\ \A n \in 1..MaxDim, b \in InputBoundValues :
                    compute_Tanh_bounds(model, t.c_p, n, b, t.B_sigma_p) = t.c_g
              /\ compute_Tanh_bounds(model, RMul(Two, t.c_p), t.input_size,
                                     t.input_bounds, t.B_sigma_p)
                    = RMul(Two, t.c_g)
              /\ (model = ExampleNet /\ t.c_p = Rat(1, 100) /\ t.B_sigma_p = One)
                    => (t.loc.sum_mk_mkp1 = 6 /\ t.c_g = Rat(12, 100))

\* the Tanh routine returned 0.12 on the example network
C3_Witness ==
    /\ call[2].variant = "Tanh"
    /\ call[2].pc = "done"
    /\ model = ExampleNet
    /\ call[2].c_p = Rat(1, 100)
    /\ call[2].B_sigma_p = One
    /\ call[2].input_bounds = Two
    /\ call[2].c_g = Rat(12, 100)

C5_ReLUPropagation ==
    LET r == call[1]
        shapes == LinearShapes(Processed(1))
        n == Len(shapes)
    IN  (r.variant = "ReLU" /\ r.pc \in {"loop", "done"}) =>
           /\ Len(r.loc.sample) = IF n = 0 THEN r.input_size ELSE shapes[n][1]
           /\ \A k \in 1..Len(r.loc.sample) :
                 r.loc.sample[k] = LayerValue(shapes, n, r.c_p, r.input_bounds)
           /\ r.loc.B_sigma = RunningMax(shapes, n, r.c_p, r.input_bounds)
           /\ r.pc = "done" =>
                 /\ r.c_g = RMul(RMul(RMul(Two, r.c_p), r.loc.B_sigma),
                                 RMul(RMul(r.B_sigma_p, r.B_sigma_p),
                                      RInt(SumExceptFirst(shapes))))
                 /\ (/\ model = ExampleNet
                     /\ r.c_p = Rat(1, 100)
                     /\ r.input_bounds = One
                     /\ r.B_sigma_p = One)
                       => /\ r.loc.B_sigma = Rat(4, 100)
                          /\ r.loc.sum_mk_mkp1 = 6
                          /\ r.c_g = Rat(48, 10000)

\* the ReLU routine returned 0.0048 on the example network
C5_Witness ==
    /\ call[1].variant = "ReLU"
    /\ call[1].pc = "done"
    /\ model = ExampleNet
    /\ call[1].c_p = Rat(1, 100)
    /\ call[1].input_bounds = One
    /\ call[1].B_sigma_p = One
    /\ call[1].loc.sample = <<Rat(12, 10000), Rat(12, 10000)>>
    /\ call[1].loc.B_sigma = Rat(4, 100)
    /\ call[1].c_g = Rat(48, 10000)

ValidArguments(c) ==
    /\ RLt(Zero, call[c].c_p)
    /\ ShapesChain(LinearShapes(model), call[c].input_size)

\* C6: a call whose c_p is zero or negative, whose network has no linear layer,
\* or whose linear layers do not chain (from input_size on) fails and returns no
\* bound.
C6_InvalidArgumentsRejected ==
    \A c \in Calls : ~ValidArguments(c) => call[c].pc # "done"

---------------------------------------------------------------------------
(* Purity of the bound routines, under SpecConcurrent.                     *)

\* what call c returns when it runs alone on a network of the same shapes
Alone(c) ==
    IF call[c].variant = "ReLU"
    THEN compute_ReLU_bounds(WithWeights(model, InitWeight), call[c].c_p,
                             call[c].input_size, call[c].input_bounds,
                             call[c].B_sigma_p)
    ELSE compute_Tanh_bounds(WithWeights(model, InitWeight), call[c].c_p,
                             call[c].input_size, call[c].input_bounds,
                             call[c].B_sigma_p)

C7_ResultsAsAlone ==
    \A c \in Calls :
        /\ call[c].pc = "done" => call[c].c_g = Alone(c)
        /\ call[c].pc = "raised" => Alone(c) = NoValue

\* C7: no step of either routine changes the network (its weights included),
\* and in every interleaving of two calls on one network each call returns what
\* it returns alone, a value fixed by the layer shapes, c_p, input_size,
\* input_bounds and B_sigma_p (and raises exactly when it raises alone).
C7_CallsArePure ==
    /\ []C7_ResultsAsAlone
    /\ [][model' = model]_vars

\* two ReLU calls with different c_p, interleaved (the second started while the
\* first was in its loop), both returned different bounds on a network with two
\* linear layers
C7_Witness ==
    /\ BothDone
    /\ call[1].variant = "ReLU"
    /\ call[2].variant = "ReLU"
    /\ call[1].c_p # call[2].c_p
    /\ call[1].c_g # call[2].c_g
    /\ Len(LinearShapes(model)) = 2
    /\ model # WithWeights(model, InitWeight)

---------------------------------------------------------------------------
(* Properties of train_WGAN, under SpecTrain.                              *)

\* the call found no loss.txt and is in, or has left by itself, the training loop
Trained == run.opened /\ run.pc \in Running \cup {"returned", "raised"}

\* the outer iterations whose generator step is done
GeneratorStepsDue == IF run.pc = "save" THEN run.i + 1 ELSE run.i

\* the discriminator steps done in the current outer iteration
DiscriminatorStepsInIteration ==
    CASE run.pc \in {"g_opt", "save"} -> args.n_d
      [] run.pc = "d_clip" -> run.j + 1
      [] run.pc \in {"inner", "d_opt"} -> run.j
      [] OTHER -> 0

\* C8: in a call that found no loss.txt, each outer iteration makes exactly
\* args.n_d discriminator steps and then one generator step (the generator step
\* never before them), all args.n_g iterations do so, and with a privacy engine
\* the hooks are on at every discriminator step and off at the generator step.
C8_StepsPerIteration ==
    Trained =>
       /\ run.pc \in Running =>
             /\ steps.g = GeneratorStepsDue
             /\ steps.d = args.n_d * run.i + DiscriminatorStepsInIteration
       /\ (args.private /\ run.pc \in {"d_opt", "d_clip"}) => nets.hooks
       /\ (args.private /\ run.pc = "g_opt") => ~nets.hooks
       /\ run.pc \in {"returned", "raised"} =>
             /\ steps.g = args.n_g
             /\ steps.d = args.n_g * args.n_d

\* what C8 says, of the runs with args.lambda_gp == 0.0 only
C8_WithoutPenalty == args.lambda_gp = 0 => C8_StepsPerIteration

\* C9: for either value of args.lambda_gp no discriminator update fails before
\* optimizerD.step(), the clipper has been applied after exactly the steps of a
\* run with args.lambda_gp == 0.0, and a call that found no loss.txt and ended
\* by itself made all args.n_g iterations and wrote the last training-time line.
C9_UpdatesReachStepAndRunFinishes ==
    /\ run.pc # "raised"
    /\ Trained =>
          steps.clip = IF args.lambda_gp = 0
                       THEN steps.d - (IF run.pc = "d_clip" THEN 1 ELSE 0)
                       ELSE 0
    /\ (Trained /\ run.pc \in {"returned", "raised"}) =>
          /\ steps.g = args.n_g
          /\ fs.final_line

\* what C9 says, of the runs with args.lambda_gp == 0.0 only
C9_WithoutPenalty == args.lambda_gp = 0 => C9_UpdatesReachStepAndRunFinishes

\* a call that finds loss.txt returns at once and touches nothing
C10_SkipStep ==
    (run.pc = "call" /\ fs.loss_exists) =>
        /\ run'.pc = "returned"
        /\ ~run'.opened
        /\ fs' = fs
        /\ nets' = nets
        /\ steps' = steps

\* every call after the first finds loss.txt and never enters the loop
C10_LaterCallsSkip ==
    run.callNo >= 2 =>
        /\ fs.loss_exists
        /\ ~run.opened
        /\ run.pc \in {"call", "returned"}

\* C10: a call of train_WGAN that finds loss.txt in run_fp (left by a finished
\* run or by one that stopped part-way) returns without an optimizer step,
\* without changing hooks or modes and without writing loss.txt or a checkpoint;
\* so of the calls on one run_fp at most the first trains, and a run whose
\* loss.txt exists is never resumed.
C10_ExistingRunIsSkipped ==
    /\ []C10_LaterCallsSkip
    /\ [][C10_SkipStep]_vars

\* a second call returned on a run_fp whose first run was stopped part-way,
\* after some optimizer steps and before its last line
C10_Witness ==
    /\ run.callNo = 2
    /\ run.pc = "returned"
    /\ ~run.opened
    /\ fs.loss_exists
    /\ ~fs.final_line
    /\ steps.d >= 1
    /\ steps.g < args.n_g

=============================================================================
